---- MODULE Spec2Model ----
(***************************************************************************)
(* Battery Cell Management dashboard (src/app.py): a Streamlit script that *)
(* is re-executed top to bottom after every user interaction.  The state   *)
(* that survives between two executions is st.session_state: the stored    *)
(* ledger cells_data, the stored cell_types list and the state of the      *)
(* keyed widgets (slider, selectboxes, number inputs).  A step of the model *)
(* is one user interaction followed by the execution it causes.  What an   *)
(* execution renders is part of its result; of the page, the variables     *)
(* keep which view was rendered and what Quick Stats computed.             *)
(*                                                                         *)
(* Units.  Currents are counted in 0.01 A, voltages in 0.1 V, temperatures *)
(* in 0.1 degC and capacities in 0.01 Wh, so that every value the script   *)
(* computes is an integer and round(voltage * current, 2) is a real        *)
(* rounding of the scaled product.                                         *)
(*                                                                         *)
(* Python objects.  The ledger is a dict of dicts.  The inner dicts are    *)
(* objects on the heap; a dict holds references to them.  The model keeps  *)
(* the heap (heap) apart from the outer mapping (cells_data), because      *)
(* dict.copy() copies the outer mapping only.                              *)
(***************************************************************************)
EXTENDS Integers, Sequences, FiniteSets, TLC

\* ---------------------------------------------------------------- bounds
\* Largest cell count explored (the slider itself allows SliderMax).
MaxCells == 2

\* ------------------------------------------------------ program constants
SliderMin == 1
SliderMax == 12
SliderDefault == 8
MinValue == 0
MaxValue == 1000

\* The smaller of two numbers (cuts the slider's range at MaxCells).
Min(a, b) == IF a < b THEN a ELSE b

\* Slider positions explored: the slider's range cut at MaxCells.
NumCellsRange == SliderMin .. Min(SliderMax, MaxCells)

\* options=["LFP", "NMC"] of the cell type selectboxes.
Options == <<"LFP", "NMC">>
OptionSet == {Options[i] : i \in 1..Len(Options)}

\* Values random.uniform(25, 40) rounded to one decimal can take (0.1 degC);
\* the two ends of the interval stand for the draw.
TempChoices == {250, 400}

\* Values a user types or steps into a current input (0.01 A), including
\* values outside the input's range.
CurrentAttempts == {-1, 0, 51, 1001}

\* Behaviours of the installed Streamlit when a keyed widget is rendered
\* again with a different `value` argument: newer releases identify the
\* widget by its key alone and keep its state ("key"), older releases hash
\* every argument into the identity and start a new widget ("params").
WidgetIdentities == {"key", "params"}

\* ------------------------------------------------------------- str methods
\* str.lower() on the option strings.
Lower(s) ==
  CASE s = "LFP" -> "lfp"
    [] s = "NMC" -> "nmc"
    [] s = "lfp" -> "lfp"
    [] s = "nmc" -> "nmc"

\* str.upper() on the lowercased cell types.
Upper(s) ==
  CASE s = "lfp" -> "LFP"
    [] s = "nmc" -> "NMC"
    [] s = "LFP" -> "LFP"
    [] s = "NMC" -> "NMC"

\* f"cell_{idx}_{cell_type}": the three parts of the key, kept apart.
CellKey(idx, cell_type) == <<"cell", idx, cell_type>>

\* round(voltage * current, 2).  voltage is in 0.1 V and current in 0.01 A,
\* so the product is in 0.001 Wh and the result in 0.01 Wh.  Both voltages
\* are even in 0.1 V, so the product never ends in 5 and no tie arises.
Round2(milli) == (milli + 5) \div 10

Capacity(voltage, current) == Round2(voltage * current)

\* The per-chemistry table of the Generate handler.
NominalVoltage(cell_type) == IF cell_type = "lfp" THEN 32 ELSE 36
MinVoltage(cell_type) == IF cell_type = "lfp" THEN 28 ELSE 32
MaxVoltage(cell_type) == IF cell_type = "lfp" THEN 36 ELSE 40

\* ------------------------------------------------------------------ state
VARIABLES
  num_cells,       \* state of the "Number of Cells" slider
  cell_type_sel,   \* state of the selectboxes cell_type_<i>, by index 1..
  cell_types,      \* st.session_state.cell_types
  cells_data,      \* st.session_state.cells_data: sequence of [key, ref]
  heap,            \* the record dicts the ledgers refer to, by reference
  current_inputs,  \* state of the number inputs current_<key>, by key
  identity,        \* how the installed Streamlit identifies keyed widgets
  view,            \* what the last execution rendered
  quick_stats      \* what Quick Stats computed

vars == <<num_cells, cell_type_sel, cell_types, cells_data, heap,
          current_inputs, identity, view, quick_stats>>

\* ------------------------------------------------------- reading the ledger
\* The records of a ledger in key order: each reference followed to the heap.
Deref(cd, h) == [i \in 1..Len(cd) |-> h[cd[i].ref]]

Keys(cd) == {cd[i].key : i \in 1..Len(cd)}

\* The ledger as the rest of the script reads it.
Ledger == Deref(cells_data, heap)

\* The current and capacity of each record, as a reader of the ledger sees
\* them.
Shown(recs) ==
  [i \in 1..Len(recs) |->
     [current |-> recs[i].current, capacity |-> recs[i].capacity]]

RECURSIVE SumOf(_, _)
\* sum(cell[field] for cell in ledger.values())
SumOf(recs, field) ==
  IF recs = <<>> THEN 0
  ELSE recs[1][field] + SumOf(Tail(recs), field)

\* sum(temp) / len(ledger): the exact quotient, or Python's
\* ZeroDivisionError when the ledger has no cell.
AverageTemp(recs) ==
  IF Len(recs) = 0
  THEN [num |-> 0, den |-> 0, zero_division |-> TRUE]
  ELSE [num |-> SumOf(recs, "temp"), den |-> Len(recs), zero_division |-> FALSE]

NoStats ==
  [shown |-> FALSE, total_capacity |-> 0, total_current |-> 0,
   avg_temp |-> [num |-> 0, den |-> 0, zero_division |-> FALSE],
   lfp_count |-> 0, nmc_count |-> 0, cells |-> <<>>]

\* The Quick Stats column; cells is what its sums were taken over.
QuickStats(recs) ==
  LET lfp == Cardinality({i \in 1..Len(recs) : recs[i].type = "LFP"})
  IN [shown |-> TRUE,
      total_capacity |-> SumOf(recs, "capacity"),
      total_current |-> SumOf(recs, "current"),
      avg_temp |-> AverageTemp(recs),
      lfp_count |-> lfp,
      nmc_count |-> Len(recs) - lfp,
      cells |-> Shown(recs)]

\* ---------------------------------------------------------------- sidebar
\* The selectbox loop: one lowercased selection per configured cell.
SidebarTypes(nc, sel) == [i \in 1..nc |-> Lower(sel[i])]

\* The record the Generate handler builds for one cell.
NewRecord(cell_type, temp) ==
  LET voltage == NominalVoltage(cell_type)
      current == 0
  IN [voltage |-> voltage,
      current |-> current,
      temp |-> temp,
      capacity |-> Capacity(voltage, current),
      min_voltage |-> MinVoltage(cell_type),
      max_voltage |-> MaxVoltage(cell_type),
      type |-> Upper(cell_type)]

\* Variant: enumerate(cell_types) without start=1.
KeyIndexFromZero(position) == position - 1

\* Variant: enumerate(cell_types, start=2).
KeyIndexFromTwo(position) == position + 1

\* enumerate(cell_types, start=1): the index that goes into the key.
KeyIndex(position) == position

\* The new ledger's outer mapping: key and reference of each record.
GeneratedKeys(types) ==
  [i \in 1..Len(types) |-> [key |-> CellKey(KeyIndex(i), types[i]), ref |-> i]]

\* The new ledger's record objects.
GeneratedHeap(types, temps) ==
  [i \in 1..Len(types) |-> NewRecord(types[i], temps[i])]

\* ---------------------------------------------------------- current inputs
\* Variant: the input without max_value.
NumberInputAcceptsNoMax(x) == MinValue <= x

\* min_value=0.0, max_value=10.0: the values the input lets the user enter.
NumberInputAccepts(x) == MinValue <= x /\ x <= MaxValue

\* The identity Streamlit gives the number input rendered with this key and
\* this `value` argument.
WidgetId(key, value) ==
  IF identity = "key" THEN <<key>> ELSE <<key, value>>

\* What st.number_input(value=value, key=key) returns: the widget's state
\* when the previous execution rendered the same widget, and `value` when
\* the widget is a new one.
NumberInput(inputs, key, value) ==
  IF key \in DOMAIN inputs /\ inputs[key].id = WidgetId(key, value)
  THEN inputs[key].state
  ELSE value

\* dict.copy(): a new outer mapping holding the same references.
DictCopy(cd) == [i \in 1..Len(cd) |-> [key |-> cd[i].key, ref |-> cd[i].ref]]

\* Variant: the loop body without its last line (the capacity assignment).
UpdatedRecordStaleCapacity(rec, current) == [rec EXCEPT !.current = current]

\* Variant: the loop body assigning the product to "voltage".
UpdatedRecordWrongField(rec, current) ==
  [rec EXCEPT !.current = current,
              !.voltage = Capacity(rec.voltage, current)]

\* What the loop body stores in updated_data[cell_key] for one input value.
UpdatedRecord(rec, current) ==
  [rec EXCEPT !.current = current,
              !.capacity = Capacity(rec.voltage, current)]

\* The heap after the current input loop: every record updated_data refers
\* to is written in place.  Each record is referred to by one key, so the
\* writes of the iterations do not interfere.
LoopHeap(stored, updated_data, h, inputs) ==
  [r \in DOMAIN h |->
     IF \E i \in 1..Len(updated_data) : updated_data[i].ref = r
     THEN LET i == CHOOSE j \in 1..Len(updated_data) : updated_data[j].ref = r
              current == NumberInput(inputs, stored[i].key,
                                     h[stored[i].ref].current)
          IN UpdatedRecord(h[r], current)
     ELSE h[r]]

\* The state of the number inputs after the loop has rendered them.
LoopInputs(stored, h, inputs) ==
  [k \in Keys(stored) |->
     LET i == CHOOSE j \in 1..Len(stored) : stored[j].key = k
         value == h[stored[i].ref].current
     IN [id |-> WidgetId(k, value), state |-> NumberInput(inputs, k, value)]]

NoInputs == [k \in {} |-> [id |-> <<k>>, state |-> 0]]

\* Variant: the main content rendered without the guard.
MainContentAlways(cd) == TRUE

\* `if st.session_state.cells_data:` - the truth value of the ledger.
MainContentShown(cd) == Len(cd) > 0

\* ------------------------------------------------------------- the script
\* One execution of the script.  nc and sel are the sidebar widget states,
\* gen and upd tell which button was clicked, temps are the random draws of
\* Generate, st is the session state the execution starts from.  The result
\* is the session state the execution leaves and the page it renders:
\* overview is what the Cell Overview cards show, quick_stats what the Quick
\* Stats column computes.
Script(nc, sel, gen, upd, temps, st) ==
  LET types == SidebarTypes(nc, sel)
      g == IF gen
           THEN [cell_types |-> types,
                 cells_data |-> GeneratedKeys(types),
                 heap |-> GeneratedHeap(types, temps)]
           ELSE [cell_types |-> st.cell_types,
                 cells_data |-> st.cells_data,
                 heap |-> st.heap]
  IN IF MainContentShown(g.cells_data)
     THEN LET updated_data == DictCopy(g.cells_data)
              h2 == LoopHeap(g.cells_data, updated_data, g.heap,
                             st.current_inputs)
              assigned == IF upd THEN updated_data ELSE g.cells_data
          IN [cell_types |-> g.cell_types,
              cells_data |-> assigned,
              heap |-> h2,
              current_inputs |-> LoopInputs(g.cells_data, g.heap,
                                            st.current_inputs),
              view |-> "dashboard",
              overview |-> Shown(Deref(g.cells_data, g.heap)),
              quick_stats |-> IF upd THEN NoStats
                              ELSE QuickStats(Deref(assigned, h2))]
     ELSE [cell_types |-> g.cell_types,
           cells_data |-> g.cells_data,
           heap |-> g.heap,
           current_inputs |-> NoInputs,
           view |-> "welcome",
           overview |-> <<>>,
           quick_stats |-> NoStats]

\* The session state an execution starts from.
Session ==
  [cell_types |-> cell_types, cells_data |-> cells_data, heap |-> heap,
   current_inputs |-> current_inputs]

NoTemps == <<>>

\* The execution caused by an interaction; st.rerun() after a commit starts
\* a second execution from the committed state with no button clicked.
Execute(nc, sel, gen, upd, temps, st) ==
  LET first == Script(nc, sel, gen, upd, temps, st)
  IN IF upd /\ first.view = "dashboard"
     THEN Script(nc, sel, FALSE, FALSE, NoTemps,
                 [cell_types |-> first.cell_types,
                  cells_data |-> first.cells_data,
                  heap |-> first.heap,
                  current_inputs |-> first.current_inputs])
     ELSE first

\* The session state and the page become those execution e leaves.
Becomes(e) ==
  /\ cell_types' = e.cell_types
  /\ cells_data' = e.cells_data
  /\ heap' = e.heap
  /\ current_inputs' = e.current_inputs
  /\ view' = e.view
  /\ quick_stats' = e.quick_stats

\* A selectbox that an execution does not render loses its state and shows
\* its first option when rendered again.
DefaultSel == [i \in 1..Min(SliderMax, MaxCells) |-> Options[1]]

RenderedSel(nc, sel) ==
  [i \in DOMAIN sel |-> IF i <= nc THEN sel[i] ELSE Options[1]]

\* ------------------------------------------------------------ interactions
\* Session state initialisation: cells_data = {} and cell_types = [].
NewSession ==
  [cell_types |-> <<>>, cells_data |-> <<>>, heap |-> <<>>,
   current_inputs |-> NoInputs]

\* First execution of a session: the widgets show their defaults and no
\* button is clicked.
Init ==
  /\ identity \in WidgetIdentities
  /\ num_cells = Min(SliderDefault, MaxCells)
  /\ cell_type_sel = DefaultSel
  /\ \E e \in {Execute(Min(SliderDefault, MaxCells), DefaultSel, FALSE, FALSE,
                        NoTemps, NewSession)} :
        /\ cell_types = e.cell_types
        /\ cells_data = e.cells_data
        /\ heap = e.heap
        /\ current_inputs = e.current_inputs
        /\ view = e.view
        /\ quick_stats = e.quick_stats

\* The execution after the sidebar widgets are set to nc and sel.
ConfigExecution(nc, sel) ==
  Execute(nc, sel, FALSE, FALSE, NoTemps, Session)

\* The execution after a click on "Generate Cells" that draws temps.
GenerateExecution(temps) ==
  Execute(num_cells, cell_type_sel, TRUE, FALSE, temps, Session)

\* The current input of the i-th cell of the ledger is on the page and lets
\* the user change its value to x.
EditEnabled(i, x) ==
  /\ view = "dashboard"
  /\ i \in 1..Len(cells_data)
  /\ NumberInputAccepts(x)
  /\ cells_data[i].key \in DOMAIN current_inputs
  /\ x # current_inputs[cells_data[i].key].state

\* The execution after x is entered in the current input of the i-th cell.
EditExecution(i, x) ==
  Execute(num_cells, cell_type_sel, FALSE, FALSE, NoTemps,
          [Session EXCEPT !.current_inputs[cells_data[i].key].state = x])

\* The execution after a click on "Update All Currents".
UpdateExecution ==
  Execute(num_cells, cell_type_sel, FALSE, TRUE, NoTemps, Session)

\* The user moves the "Number of Cells" slider.
SetNumCells(n) ==
  /\ n # num_cells
  /\ num_cells' = n
  /\ cell_type_sel' = RenderedSel(n, cell_type_sel)
  /\ \E e \in {ConfigExecution(n, RenderedSel(n, cell_type_sel))} : Becomes(e)
  /\ UNCHANGED identity

\* The user picks another option in the selectbox of cell i.
SetCellType(i, t) ==
  /\ i <= num_cells
  /\ t # cell_type_sel[i]
  /\ cell_type_sel' = [cell_type_sel EXCEPT ![i] = t]
  /\ \E e \in {ConfigExecution(num_cells, [cell_type_sel EXCEPT ![i] = t])} :
       Becomes(e)
  /\ UNCHANGED <<num_cells, identity>>

\* The user clicks "Generate Cells"; temps are the random temperatures.
GenerateCells(temps) ==
  /\ \E e \in {GenerateExecution(temps)} : Becomes(e)
  /\ UNCHANGED <<num_cells, cell_type_sel, identity>>

\* The user enters x in the current input of the i-th cell of the ledger.
EditCurrent(i, x) ==
  /\ EditEnabled(i, x)
  /\ \E e \in {EditExecution(i, x)} : Becomes(e)
  /\ UNCHANGED <<num_cells, cell_type_sel, identity>>

\* The user clicks "Update All Currents".
UpdateAllCurrents ==
  /\ view = "dashboard"
  /\ \E e \in {UpdateExecution} : Becomes(e)
  /\ UNCHANGED <<num_cells, cell_type_sel, identity>>

Next ==
  \/ \E n \in NumCellsRange : SetNumCells(n)
  \/ \E i \in 1..Min(SliderMax, MaxCells), t \in OptionSet : SetCellType(i, t)
  \/ \E temps \in [1..num_cells -> TempChoices] : GenerateCells(temps)
  \/ \E i \in 1..Min(SliderMax, MaxCells), x \in CurrentAttempts : EditCurrent(i, x)
  \/ UpdateAllCurrents

Spec == Init /\ [][Next]_vars

\* ------------------------------------------------------------- properties
\* The kinds of step, for the properties that speak of one kind.  A Generate
\* step is one for some draw of temperatures; the draw can only be the one
\* found in the new records.
IsGenerate ==
  /\ Len(heap') = num_cells
  /\ \E temps \in {[i \in 1..num_cells |-> heap'[i].temp]} :
       /\ temps \in [1..num_cells -> TempChoices]
       /\ GenerateCells(temps)

IsUpdate == UpdateAllCurrents

\* The executions a click on "Generate Cells" can cause in the present state.
GenerateExecutions ==
  {GenerateExecution(temps) : temps \in [1..num_cells -> TempChoices]}

\* The executions that the steps other than Generate can cause in the
\* present state: slider moves, selectbox changes, current entries, commit.
OtherExecutions ==
  {ConfigExecution(n, RenderedSel(n, cell_type_sel)) : n \in NumCellsRange}
  \cup {ConfigExecution(num_cells, [cell_type_sel EXCEPT ![i] = t]) :
          i \in 1..num_cells, t \in OptionSet}
  \cup {EditExecution(i[1], i[2]) :
          i \in {p \in (1..Len(cells_data)) \X CurrentAttempts :
                   EditEnabled(p[1], p[2])}}
  \cup (IF view = "dashboard" THEN {UpdateExecution} ELSE {})

\* The fixed chemistry table as the specification gives it (0.1 V), with the
\* spelling of the chemistry in the key and in the stored type.
ChemistryTable ==
  [LFP |-> [suffix |-> "lfp", type |-> "LFP", voltage |-> 32,
            min_voltage |-> 28, max_voltage |-> 36],
   NMC |-> [suffix |-> "nmc", type |-> "NMC", voltage |-> 36,
            min_voltage |-> 32, max_voltage |-> 40]]

\* C1: in every state of the stored ledger, every record's capacity is
\* round(voltage * current, 2) of that record's own voltage and current
\* (here: the product in 0.001 Wh rounded to 0.01 Wh).
C1_CapacityIsProduct ==
  \A i \in 1..Len(cells_data) :
    LET milli == Ledger[i].voltage * Ledger[i].current
    IN /\ 10 * Ledger[i].capacity - 5 <= milli
       /\ milli < 10 * Ledger[i].capacity + 5

\* C1 witness: a record whose current was edited to 0.51 A and whose
\* capacity is the rounded product (1.63 Wh for LFP, 1.84 Wh for NMC).
C1_Witness ==
  \E i \in 1..Len(cells_data) :
    /\ Ledger[i].current = 51
    /\ Ledger[i].capacity = IF Ledger[i].type = "LFP" THEN 163 ELSE 184

\* C2: the currents and capacities of the stored ledger change only in a
\* step that commits the batch with "Update All Currents" (or replaces the
\* ledger with Generate); entering a value in a current input leaves them
\* as they are.
C2_StoredChangesOnlyOnCommit ==
  [][Shown(Ledger') # Shown(Ledger) => (IsUpdate \/ IsGenerate)]_vars

\* C3: all readers of one execution see the same ledger: in every
\* execution a reachable state allows, the currents and capacities on the
\* Cell Overview cards are those Quick Stats sums, so no execution shows a
\* cell with its old current to one reader and its new current to another.
C3_ReadersSeeOneLedger ==
  \A e \in GenerateExecutions \cup OtherExecutions :
    e.quick_stats.shown => e.overview = e.quick_stats.cells

\* C4: after every Generate step, from any prior state, every record of
\* the stored ledger has current 0.0 and capacity 0.0.
C4_GenerateResetsCurrents ==
  [][IsGenerate =>
       \A i \in 1..Len(cells_data') :
         Ledger'[i].current = 0 /\ Ledger'[i].capacity = 0]_vars

\* C5: from every reachable state, Generate over the n configured
\* chemistry selections (1 <= n <= the slider's maximum) leaves a ledger of
\* exactly n records in creation order, the i-th keyed cell_<i>_<chemistry
\* lowercase>, with type the chemistry uppercased and voltage, min_voltage,
\* max_voltage from the fixed table.
C5_GenerateBuildsLedger ==
  \A temps \in [1..num_cells -> TempChoices] :
    \A e \in {GenerateExecution(temps)} :
      /\ num_cells \in 1..SliderMax
      /\ Len(e.cells_data) = num_cells
      /\ \A i \in 1..Len(e.cells_data) :
           \A row \in {ChemistryTable[cell_type_sel[i]]},
              rec \in {e.heap[e.cells_data[i].ref]} :
             /\ e.cells_data[i].key = <<"cell", i, row.suffix>>
             /\ rec.type = row.type
             /\ rec.voltage = row.voltage
             /\ rec.min_voltage = row.min_voltage
             /\ rec.max_voltage = row.max_voltage

\* C5 witness: a generated ledger of two cells of different chemistry.
C5_Witness ==
  /\ Len(cells_data) = 2
  /\ cells_data[1].key = <<"cell", 1, "lfp">>
  /\ cells_data[2].key = <<"cell", 2, "nmc">>
  /\ Ledger[1].voltage = 32
  /\ Ledger[2].voltage = 36

\* Two records that agree on every field but current and capacity.
SameButCurrent(a, b) ==
  [a EXCEPT !.current = 0, !.capacity = 0]
    = [b EXCEPT !.current = 0, !.capacity = 0]

\* C6: from every reachable state, setting the current of cell i keeps
\* the ledger's keys, every field of every other cell, and cell i's
\* voltage, min_voltage, max_voltage, temp and type; and no step other
\* than Generate changes the keys, the temperature or the voltage of a
\* record.
C6_SetCurrentFrame ==
  /\ \A i \in 1..Len(cells_data), x \in CurrentAttempts :
       EditEnabled(i, x) =>
         \A e \in {EditExecution(i, x)} :
           /\ e.cells_data = cells_data
           /\ \A j \in 1..Len(cells_data) :
                \A before \in {heap[cells_data[j].ref]},
                   after \in {e.heap[e.cells_data[j].ref]} :
                  IF j = i THEN SameButCurrent(before, after)
                  ELSE after = before
  /\ \A e \in OtherExecutions :
       /\ e.cells_data = cells_data
       /\ \A j \in 1..Len(cells_data) :
            \A before \in {heap[cells_data[j].ref]},
               after \in {e.heap[e.cells_data[j].ref]} :
              /\ after.temp = before.temp
              /\ after.voltage = before.voltage

\* C6 witness: one cell carries an edited current while another cell of the
\* same ledger still has its initial one.
C6_Witness ==
  \E i, j \in 1..Len(cells_data) :
    /\ Ledger[i].current = 51
    /\ Ledger[j].current = 0
    /\ Ledger[i].temp # Ledger[j].temp

\* C8 as stated: every key has the form cell_<i>_<chem> with i at most the
\* current "Number of Cells" setting and <chem> the lowercase of the
\* record's type, also after the sidebar is changed without Generate.
C8_KeysWithinSliderCount ==
  \A i \in 1..Len(cells_data) :
    /\ cells_data[i].key[1] = "cell"
    /\ cells_data[i].key[2] \in 1..num_cells
    /\ \E c \in DOMAIN ChemistryTable :
         /\ ChemistryTable[c].suffix = cells_data[i].key[3]
         /\ ChemistryTable[c].type = Ledger[i].type

\* C8 amended: every key has the form cell_<i>_<chem> with i at most the
\* cell count that was configured when the ledger was generated (the length
\* of the stored cell_types) and <chem> the lowercase of the record's type.
C8_KeysWithinGeneratedCount ==
  \A i \in 1..Len(cells_data) :
    /\ cells_data[i].key[1] = "cell"
    /\ cells_data[i].key[2] \in 1..Len(cell_types)
    /\ \E c \in DOMAIN ChemistryTable :
         /\ ChemistryTable[c].suffix = cells_data[i].key[3]
         /\ ChemistryTable[c].type = Ledger[i].type

\* C8 witness: the slider was lowered and a selection changed after the
\* ledger was generated, without another Generate.
C8_Witness ==
  /\ Len(cells_data) = 2
  /\ num_cells = 1
  /\ ChemistryTable[cell_type_sel[1]].suffix # cells_data[1].key[3]

\* C9: in every state of the stored ledger every current lies in
\* [0.0, 10.0] A and every capacity in [0, 10 * voltage].
C9_CurrentInRange ==
  \A i \in 1..Len(cells_data) :
    /\ 0 <= Ledger[i].current
    /\ Ledger[i].current <= 1000
    /\ 0 <= Ledger[i].capacity
    /\ Ledger[i].capacity <= 100 * Ledger[i].voltage

\* C9 witness: every cell of a two-cell ledger carries an entered current.
C9_Witness ==
  /\ Len(cells_data) = 2
  /\ \A i \in 1..Len(cells_data) : Ledger[i].current = 51

\* C10: Quick Stats is computed only over a ledger with at least one cell,
\* so its average never divides by zero; with an empty ledger the welcome
\* page is rendered and no aggregate is shown.
C10_NoAverageOfEmptyLedger ==
  /\ quick_stats.shown =>
       /\ Len(cells_data) > 0
       /\ ~quick_stats.avg_temp.zero_division
       /\ quick_stats.avg_temp.den = Len(cells_data)
  /\ Len(cells_data) = 0 => view = "welcome" /\ ~quick_stats.shown

\* C10 witness: Quick Stats averaged the temperatures of two cells.
C10_Witness ==
  /\ quick_stats.shown
  /\ quick_stats.avg_temp.den = 2
  /\ quick_stats.avg_temp.num = 650

====
